---- MODULE Spec2Model ----
(***************************************************************************)
(* Model of src/equipment/serialmount.py: the serial configuration         *)
(* validator (SerialMount.validate_config), the parameter mapping          *)
(* (SerialMount.apply_config_to_serial_port) and the mount lifecycle       *)
(* (SerialMount.__init__, connect, connected, polar_aligned).              *)
(*                                                                         *)
(* Python values are tagged records [t |-> type, v |-> payload]:           *)
(*   str   : v is the sequence of the string's characters                  *)
(*   int   : v is the integer                                              *)
(*   float : v is the number in tenths (15 is 1.5, 100000 is 10000.0)      *)
(*   bool  : v is TRUE or FALSE                                            *)
(*   none, dict (an unhashable container), tuple (a hashable container)    *)
(***************************************************************************)
EXTENDS Integers, Sequences, FiniteSets

VARIABLES
  os,        \* what platform.system() returns on this host
  config,    \* the configuration mapping under test
  call,      \* the outcome of the static method called on config, if any
  mount,     \* the SerialMount object, once constructed
  stdout,    \* the lines print() has written
  last,      \* the mount operation done last and what it returned or raised
  connects   \* how many times connect() was called

vars == <<os, config, call, mount, stdout, last, connects>>

(***************************************************************************)
(* Bounds of the model.                                                    *)
(***************************************************************************)
\* fields of valid_config() that an input of the validator may change or drop
MaxEdits == 2
\* the same, for the configurations a mount is constructed with
MountEdits == 2
\* characters that follow the prefix of a generated port name
MaxTail == 2
\* calls of connect() on one mount
MaxConnects == 2

(***************************************************************************)
(* Python values.                                                          *)
(***************************************************************************)
PyStr(s) == [t |-> "str", v |-> s]
PyInt(n) == [t |-> "int", v |-> n]
PyFloat(tenths) == [t |-> "float", v |-> tenths]
PyBool(b) == [t |-> "bool", v |-> b]
None == [t |-> "none", v |-> 0]
Dict == [t |-> "dict", v |-> 0]
Tuple == [t |-> "tuple", v |-> 0]

\* type(value)
type(value) == value.t

IsNumber(value) == value.t \in {"int", "float", "bool"}

\* the numeric value of a Python number, in tenths: 1 == 1.0 == True
NumVal(value) ==
  CASE value.t = "int" -> 10 * value.v
    [] value.t = "float" -> value.v
    [] value.t = "bool" -> IF value.v THEN 10 ELSE 0

\* a == b of Python, for the values above
py_eq(a, b) ==
  IF IsNumber(a) /\ IsNumber(b) THEN NumVal(a) = NumVal(b)
  ELSE a.t = b.t /\ a.v = b.v

\* whether hash(value) succeeds
Hashable(value) == value.t # "dict"

Digit(d) ==
  CASE d = 0 -> "0" [] d = 1 -> "1" [] d = 2 -> "2" [] d = 3 -> "3" [] d = 4 -> "4"
    [] d = 5 -> "5" [] d = 6 -> "6" [] d = 7 -> "7" [] d = 8 -> "8" [] d = 9 -> "9"

RECURSIVE NatStr(_)
NatStr(n) == IF n < 10 THEN <<Digit(n)>> ELSE NatStr(n \div 10) \o <<Digit(n % 10)>>

IntStr(n) == IF n < 0 THEN <<"-">> \o NatStr(0 - n) ELSE NatStr(n)

\* str(value), as an f-string formats {value}
py_str(value) ==
  CASE value.t = "str" -> value.v
    [] value.t = "int" -> IntStr(value.v)
    [] value.t = "float" -> IntStr(value.v \div 10) \o <<".", Digit(value.v % 10)>>
    [] value.t = "bool" -> IF value.v THEN <<"T", "r", "u", "e">>
                                      ELSE <<"F", "a", "l", "s", "e">>
    [] value.t = "none" -> <<"N", "o", "n", "e">>
    [] value.t = "dict" -> <<"{", "}">>
    [] value.t = "tuple" -> <<"(", ")">>

(***************************************************************************)
(* Module-level tables: regular expressions, field list, lookup tables.    *)
(***************************************************************************)
LowerCase == {"a", "b", "c", "d", "e", "f", "g", "h", "i", "j", "k", "l", "m",
              "n", "o", "p", "q", "r", "s", "t", "u", "v", "w", "x", "y", "z"}
UpperCase == {"A", "B", "C", "D", "E", "F", "G", "H", "I", "J", "K", "L", "M",
              "N", "O", "P", "Q", "R", "S", "T", "U", "V", "W", "X", "Y", "Z"}
Digits19 == {"1", "2", "3", "4", "5", "6", "7", "8", "9"}
\* the character class [a-zA-Z0-9\-]
UnixPortClass == LowerCase \cup UpperCase \cup Digits19 \cup {"0", "-"}

DevPrefix == <<"/", "d", "e", "v", "/">>
ComPrefix == <<"C", "O", "M">>

\* number of consecutive characters of class cls in s from position i on
RECURSIVE RunLen(_, _, _)
RunLen(s, i, cls) ==
  IF i <= Len(s) /\ s[i] \in cls THEN 1 + RunLen(s, i + 1, cls) ELSE 0

\* re.fullmatch in place of re.match: the whole of s has to match
unix_port_re_fullmatch(s) ==
  IF Len(s) >= 6 /\ SubSeq(s, 1, 5) = DevPrefix /\ RunLen(s, 6, UnixPortClass) = Len(s) - 5
  THEN Len(s)
  ELSE 0

\* re.match(unix_port_re, s): the length of the match at the start of s, 0 for
\* no match (the pattern matches no empty string). The + is greedy.
unix_port_re(s) ==
  IF Len(s) >= 6 /\ SubSeq(s, 1, 5) = DevPrefix /\ s[6] \in UnixPortClass
  THEN 5 + RunLen(s, 6, UnixPortClass)
  ELSE 0

\* re.match(win_port_re, s): likewise, for COM[1-9]
win_port_re(s) ==
  IF Len(s) >= 4 /\ SubSeq(s, 1, 3) = ComPrefix /\ s[4] \in Digits19
  THEN 4
  ELSE 0

\* the field list with parity ahead of stop_bits
keys_parity_first == <<"port", "baud_rate", "data_bits", "parity", "stop_bits">>

required_serial_config_keys == <<"port", "baud_rate", "data_bits", "stop_bits", "parity">>

PARITY_EVEN == PyStr(<<"E">>)
PARITY_NONE == PyStr(<<"N">>)
PARITY_ODD == PyStr(<<"O">>)
STOPBITS_ONE == PyInt(1)
STOPBITS_ONE_POINT_FIVE == PyFloat(15)
STOPBITS_TWO == PyInt(2)
FIVEBITS == PyInt(5)
SIXBITS == PyInt(6)
SEVENBITS == PyInt(7)
EIGHTBITS == PyInt(8)

\* dictionaries are sequences of <<key, value>> in declaration order
parity_value_map ==
  << <<PyStr(<<"e">>), PARITY_EVEN>>, <<PyStr(<<"E">>), PARITY_EVEN>>,
     <<PyStr(<<"e", "v", "e", "n">>), PARITY_EVEN>>, <<PyStr(<<"E", "v", "e", "n">>), PARITY_EVEN>>,
     <<PyStr(<<"n">>), PARITY_NONE>>, <<PyStr(<<"N">>), PARITY_NONE>>,
     <<PyStr(<<"n", "o", "n", "e">>), PARITY_NONE>>, <<PyStr(<<"N", "o", "n", "e">>), PARITY_NONE>>,
     <<PyStr(<<"o">>), PARITY_ODD>>, <<PyStr(<<"O">>), PARITY_ODD>>,
     <<PyStr(<<"o", "d", "d">>), PARITY_ODD>>, <<PyStr(<<"O", "d", "d">>), PARITY_ODD>> >>

stop_bits_map ==
  << <<PyInt(1), STOPBITS_ONE>>, <<PyFloat(15), STOPBITS_ONE_POINT_FIVE>>, <<PyInt(2), STOPBITS_TWO>> >>

data_bits_map ==
  << <<PyInt(5), FIVEBITS>>, <<PyInt(6), SIXBITS>>, <<PyInt(7), SEVENBITS>>, <<PyInt(8), EIGHTBITS>> >>

\* key in d.keys(), for a hashable key
dict_has(d, key) == \E i \in 1..Len(d) : py_eq(d[i][1], key)

\* d[key], for a key that is present
dict_get(d, key) == d[CHOOSE i \in 1..Len(d) : py_eq(d[i][1], key)][2]

(***************************************************************************)
(* SerialMount.validate_config                                             *)
(***************************************************************************)
\* one error message: the template that produced it (kind), the field it is
\* about ({key} in the missing-key template), and the text of {value}
Msg(kind, key, text) == [kind |-> kind, key |-> key, text |-> text]

\* Emit with the flag forgotten: errors.append(msg) alone
Emit_no_flag(st, msg) == [st EXCEPT !.errors = Append(@, msg)]

\* has_error = True; errors.append(msg)
Emit(st, msg) == [st EXCEPT !.has_error = TRUE, !.errors = Append(@, msg)]

\* an exception leaves the function: nothing later in it runs
Raise(st, exc) == [st EXCEPT !.raised = exc]

\* if key == 'port': ... re.match(pattern, value) raises TypeError for a value
\* that is no string; a platform other than the three named checks nothing
check_port(st, os_, value) ==
  IF os_ = "Linux" \/ os_ = "Darwin"
  THEN IF type(value) # "str" THEN Raise(st, "TypeError")
       ELSE IF unix_port_re(value.v) = 0
            THEN Emit(st, Msg("port_unix", "port", py_str(value)))
            ELSE st
  ELSE IF os_ = "Windows"
       THEN IF type(value) # "str" THEN Raise(st, "TypeError")
            ELSE IF win_port_re(value.v) = 0
                 THEN Emit(st, Msg("port_win", "port", py_str(value)))
                 ELSE st
       ELSE st

\* if key == 'baud_rate' and (value_type is not int or value < 9600 or value > 230400)
check_baud_rate(st, value) ==
  IF type(value) # "int" \/ value.v < 9600 \/ value.v > 230400
  THEN Emit(st, Msg("baud_rate", "baud_rate", <<>>))
  ELSE st

\* if key == 'data_bits' and (value_type is not int or value not in data_bits_map.keys())
check_data_bits(st, value) ==
  IF type(value) # "int" \/ ~dict_has(data_bits_map, value)
  THEN Emit(st, Msg("data_bits", "data_bits", <<>>))
  ELSE st

\* if key == 'parity' and (value_type is not str or value not in parity_value_map.keys())
check_parity(st, value) ==
  IF type(value) # "str" \/ ~dict_has(parity_value_map, value)
  THEN Emit(st, Msg("parity", "parity", py_str(value)))
  ELSE st

\* if key == 'stop_bits' and value not in stop_bits_map.keys(): the membership
\* test hashes the value, which raises TypeError for an unhashable one
check_stop_bits(st, value) ==
  IF ~Hashable(value) THEN Raise(st, "TypeError")
  ELSE IF ~dict_has(stop_bits_map, value)
       THEN Emit(st, Msg("stop_bits", "stop_bits", py_str(value)))
       ELSE st

\* the checks of one present key. The code runs five ifs in a row, each guarded
\* by key == <one field>; the keys differ, so exactly one of them applies
check_value(st, key, value, os_) ==
  CASE key = "port" -> check_port(st, os_, value)
    [] key = "baud_rate" -> check_baud_rate(st, value)
    [] key = "data_bits" -> check_data_bits(st, value)
    [] key = "parity" -> check_parity(st, value)
    [] key = "stop_bits" -> check_stop_bits(st, value)

\* the body of the loop for one key: a missing key is reported and the loop
\* continues with the next key
validate_key(st, key, serial_config, os_) ==
  IF key \notin DOMAIN serial_config
  THEN Emit(st, Msg("missing", key, <<>>))
  ELSE check_value(st, key, serial_config[key], os_)

\* for key in required_serial_config_keys, from the i-th key on
RECURSIVE validate_loop(_, _, _, _)
validate_loop(st, i, serial_config, os_) ==
  IF i > Len(required_serial_config_keys) \/ st.raised # ""
  THEN st
  ELSE validate_loop(validate_key(st, required_serial_config_keys[i], serial_config, os_),
                     i + 1, serial_config, os_)

\* return not has_error, errors
validate_return(st) ==
  [raised |-> "", valid |-> ~st.has_error, errors |-> st.errors]

\* what the caller gets: the exception, if one left the loop, or the pair
validate_outcome(st) ==
  IF st.raised # ""
  THEN [raised |-> st.raised, valid |-> FALSE, errors |-> <<>>]
  ELSE validate_return(st)

\* validate_config(config); config['serial'] raises KeyError on {}
validate_config(config_, os_) ==
  IF ~config_.has_serial
  THEN [raised |-> "KeyError", valid |-> FALSE, errors |-> <<>>]
  ELSE validate_outcome(validate_loop([has_error |-> FALSE, errors |-> <<>>, raised |-> ""],
                                      1, config_.serial, os_))

(***************************************************************************)
(* The serial transport and SerialMount.apply_config_to_serial_port        *)
(***************************************************************************)
\* Serial(): a new transport handle, closed and with no port named
Serial ==
  [port |-> None, baudrate |-> PyInt(9600), bytesize |-> EIGHTBITS,
   parity |-> PARITY_NONE, stopbits |-> STOPBITS_ONE, is_open |-> FALSE]

\* config['serial'][key]: the value, or the KeyError
HasItem(config_, key) == config_.has_serial /\ key \in DOMAIN config_.serial

\* table[value]: TypeError for an unhashable value, KeyError for an absent one
LookupError(table, value) ==
  IF ~Hashable(value) THEN "TypeError"
  ELSE IF ~dict_has(table, value) THEN "KeyError"
  ELSE ""

\* port.<attr> = config['serial'][key], unless an exception already left the call
assign_verbatim(ps, attr, config_, key) ==
  IF ps.raised # "" THEN ps
  ELSE IF ~HasItem(config_, key) THEN [ps EXCEPT !.raised = "KeyError"]
  ELSE [ps EXCEPT !.port[attr] = config_.serial[key]]

\* port.<attr> = table[config['serial'][key]], likewise
assign_lookup(ps, attr, table, config_, key) ==
  IF ps.raised # "" THEN ps
  ELSE IF ~HasItem(config_, key) THEN [ps EXCEPT !.raised = "KeyError"]
  ELSE IF LookupError(table, config_.serial[key]) # ""
       THEN [ps EXCEPT !.raised = LookupError(table, config_.serial[key])]
  ELSE [ps EXCEPT !.port[attr] = dict_get(table, config_.serial[key])]

\* the mapping with the parity lookup forgotten: port.parity = config['serial']['parity']
apply_config_parity_verbatim(config_, port) ==
  assign_verbatim(
    assign_lookup(
      assign_verbatim(
        assign_verbatim(
          assign_verbatim([port |-> port, raised |-> ""], "port", config_, "port"),
          "baudrate", config_, "baud_rate"),
        "bytesize", config_, "data_bits"),
      "stopbits", stop_bits_map, config_, "stop_bits"),
    "parity", config_, "parity")

\* the five assignments in order; the first exception ends the call and keeps
\* the assignments made before it. Result: the transport and the exception
apply_config_to_serial_port(config_, port) ==
  assign_lookup(
    assign_lookup(
      assign_verbatim(
        assign_verbatim(
          assign_verbatim([port |-> port, raised |-> ""], "port", config_, "port"),
          "baudrate", config_, "baud_rate"),
        "bytesize", config_, "data_bits"),
      "stopbits", stop_bits_map, config_, "stop_bits"),
    "parity", parity_value_map, config_, "parity")

(***************************************************************************)
(* Inputs: platform identifiers and configurations.                        *)
(***************************************************************************)
\* what platform.system() returns; "Java" stands for every other identifier
Platforms == {"Linux", "Darwin", "Windows", "Java"}

\* tests/test_serialmount.py valid_config()
valid_port(os_) ==
  IF os_ = "Windows" THEN PyStr(<<"C", "O", "M", "1">>)
  ELSE PyStr(<<"/", "d", "e", "v", "/", "c", "u", ".", "u", "s", "b", "s", "e", "r",
               "i", "a", "l", "-", "T", "E", "S", "T">>)

valid_value(key, os_) ==
  CASE key = "port" -> valid_port(os_)
    [] key = "baud_rate" -> PyInt(115200)
    [] key = "data_bits" -> PyInt(8)
    [] key = "parity" -> PyStr(<<"n", "o", "n", "e">>)
    [] key = "stop_bits" -> PyInt(1)

\* a slot of a configuration is a value, or Absent for a key the mapping lacks
Absent == [t |-> "absent", v |-> 0]

Foo == PyStr(<<"f", "o", "o">>)

\* the values the tests and the claims name for each field, and a few more
FieldValues(key) ==
  CASE key = "port" ->
         {Absent, PyStr(<<"/", "d", "e", "v", "/", "t", "e", "s", "t">>),
          PyStr(<<"C", "O", "M", "1">>), PyStr(<<>>), PyInt(1), None, Dict}
    [] key = "baud_rate" ->
         {Absent, PyFloat(100000), PyBool(FALSE), PyBool(TRUE), Foo, PyInt(0 - 1), PyInt(0),
          PyInt(9599), PyInt(9600), PyInt(230400), PyInt(230401), None, Dict}
    [] key = "data_bits" ->
         {Absent, PyFloat(100000), PyFloat(80), PyBool(FALSE), PyBool(TRUE), Foo, PyInt(0 - 1),
          PyInt(4), PyInt(5), PyInt(6), PyInt(7), PyInt(9), None, Dict}
    [] key = "parity" ->
         {Absent, PyInt(1), PyFloat(11), PyBool(FALSE), Dict, None, Foo,
          PyStr(<<"E", "V", "E", "N">>)}
           \cup {parity_value_map[i][1] : i \in 1..Len(parity_value_map)}
    [] key = "stop_bits" ->
         {Absent, PyBool(FALSE), PyBool(TRUE), Foo, PyInt(0 - 1), PyInt(0), PyInt(2), PyInt(3),
          PyFloat(15), PyFloat(10), PyFloat(20), PyFloat(25), None, Dict, Tuple}

\* a smaller choice, for the configurations a mount is constructed with
MountFieldValues(key) ==
  CASE key = "port" -> {Absent, PyStr(<<"C", "O", "M", "1">>), PyInt(1)}
    [] key = "baud_rate" -> {Absent, PyInt(0), PyFloat(100000)}
    [] key = "data_bits" -> {Absent, PyInt(9), PyInt(5)}
    [] key = "parity" -> {Absent, PyStr(<<"E">>), None}
    [] key = "stop_bits" -> {Absent, PyBool(TRUE), PyFloat(15), PyInt(3), Dict}

\* the slots of the keys from the i-th on: valid_config() with at most n of them
\* dropped or replaced by a value of FieldValues (MountFieldValues if small)
RECURSIVE Slots(_, _, _, _)
Slots(i, n, os_, small) ==
  IF i > Len(required_serial_config_keys) THEN {<<>>}
  ELSE LET key == required_serial_config_keys[i]
           alts == IF small THEN MountFieldValues(key) ELSE FieldValues(key)
           keep == {<<valid_value(key, os_)>> \o r : r \in Slots(i + 1, n, os_, small)}
           edit == IF n = 0 THEN {}
                   ELSE {<<a>> \o r : a \in alts \ {valid_value(key, os_)},
                                      r \in Slots(i + 1, n - 1, os_, small)}
       IN keep \cup edit

KeyIndex(key) == CHOOSE i \in 1..Len(required_serial_config_keys) :
                   required_serial_config_keys[i] = key

\* {'serial': {...}} with the keys whose slot is not Absent
ConfigOf(slots) ==
  [has_serial |-> TRUE,
   serial |-> [key \in {required_serial_config_keys[i] : i \in {j \in 1..Len(slots) : slots[j] # Absent}}
                 |-> slots[KeyIndex(key)]]]

\* {} : a configuration with no 'serial' entry
EmptyConfig == [has_serial |-> FALSE, serial |-> [key \in {} |-> None]]

Configs(os_) == {ConfigOf(sl) : sl \in Slots(1, MaxEdits, os_, FALSE)}

MountConfigs(os_) ==
  {ConfigOf(sl) : sl \in Slots(1, MountEdits, os_, TRUE)} \cup {EmptyConfig}

\* port names: a prefix followed by at most MaxTail characters
PortPrefixes == {<<>>, DevPrefix, <<"/", "d", "e", "v">>, ComPrefix, <<"C", "O">>,
                 <<"x">> \o DevPrefix, <<"x">> \o ComPrefix}
TailAlphabet == {"t", "Z", "9", "0", "-", ".", "/"}

RECURSIVE Tails(_)
Tails(n) == IF n = 0 THEN {<<>>}
            ELSE Tails(n - 1) \cup {t \o <<c>> : t \in Tails(n - 1), c \in TailAlphabet}

PortStrings == {p \o t : p \in PortPrefixes, t \in Tails(MaxTail)}

\* valid_config() with config['serial']['port'] = port
WithPort(os_, port) ==
  ConfigOf([i \in 1..Len(required_serial_config_keys) |->
              IF required_serial_config_keys[i] = "port" THEN port
              ELSE valid_value(required_serial_config_keys[i], os_)])

PortConfigs(os_) == {WithPort(os_, PyStr(s)) : s \in PortStrings}

(***************************************************************************)
(* Specification of the two static methods: the inputs are drawn by Init,  *)
(* Validate and Apply call the method on them.                             *)
(***************************************************************************)
NoCall == [op |-> "none"]
NoMount == [state |-> "none"]
NoPort == [given |-> FALSE, port |-> Serial]
Given(port) == [given |-> TRUE, port |-> port]
NoLast == [op |-> "none", raised |-> "", value |-> FALSE]

Init ==
  /\ os \in Platforms
  /\ \/ config \in Configs(os)
     \/ config \in PortConfigs(os)
     \/ config = EmptyConfig
  /\ call = NoCall
  /\ mount = NoMount
  /\ stdout = <<>>
  /\ last = NoLast
  /\ connects = 0

\* SerialMount.validate_config(config)
Validate ==
  /\ call.op = "none"
  /\ call' = [op |-> "validate", result |-> validate_config(config, os)]
  /\ UNCHANGED <<os, config, mount, stdout, last, connects>>

\* SerialMount.apply_config_to_serial_port(config, Serial())
Apply ==
  /\ call.op = "none"
  /\ call' = [op |-> "apply", result |-> apply_config_to_serial_port(config, Serial)]
  /\ UNCHANGED <<os, config, mount, stdout, last, connects>>

Next == Validate \/ Apply

Spec == Init /\ [][Next]_vars

(***************************************************************************)
(* The mount: SerialMount.__init__, connected, connect, polar_aligned.     *)
(***************************************************************************)
\* Serial.open() of the transport: it fails on a transport with no port named
\* and on one already open, and otherwise opens the channel or fails to
Serial_open(port) ==
  IF port.port = None \/ port.is_open
  THEN {[port |-> port, raised |-> "SerialException"]}
  ELSE {[port |-> [port EXCEPT !.is_open = TRUE], raised |-> ""],
        [port |-> port, raised |-> "SerialException"]}

\* the object __init__ leaves: _config, _port, and the class default of
\* _polar_aligned; serial_port is the argument it was given
Constructed(config_, serial_port, port) ==
  [state |-> "constructed", config |-> config_, port |-> port,
   polar_aligned |-> FALSE, serial_port |-> serial_port]

\* an exception left __init__: there is no object
NotConstructed(exc, serial_port) ==
  [state |-> "raised", exc |-> exc, serial_port |-> serial_port]

\* for msg in errors: print(msg)
print_all(out, errors) == out \o errors

\* SerialMount.apply_config_to_serial_port(config, self._port) in __init__
init_applied(config_, serial_port, ap, out) ==
  IF ap.raised # ""
  THEN [mount |-> NotConstructed(ap.raised, serial_port), stdout |-> out]
  ELSE [mount |-> Constructed(config_, serial_port, ap.port), stdout |-> out]

\* __init__ with the guard on valid forgotten: the messages are printed and the
\* configuration is applied all the same
init_validated_apply_anyway(config_, serial_port, res, out) ==
  IF res.raised # ""
  THEN [mount |-> NotConstructed(res.raised, serial_port), stdout |-> out]
  ELSE init_applied(config_, serial_port, apply_config_to_serial_port(config_, Serial),
                    IF res.valid THEN out ELSE print_all(out, res.errors))

\* if valid: apply the configuration; else: print every message
init_validated(config_, serial_port, res, out) ==
  IF res.raised # ""
  THEN [mount |-> NotConstructed(res.raised, serial_port), stdout |-> out]
  ELSE IF res.valid
       THEN init_applied(config_, serial_port,
                         apply_config_to_serial_port(config_, Serial), out)
       ELSE [mount |-> Constructed(config_, serial_port, Serial),
             stdout |-> print_all(out, res.errors)]

\* __init__ that validates and configures a supplied transport too
SerialMount_init_always_configure(config_, serial_port, os_, out) ==
  IF validate_config(config_, os_).raised = "" /\ validate_config(config_, os_).valid
  THEN init_applied(config_, serial_port,
                    apply_config_to_serial_port(config_, serial_port.port), out)
  ELSE [mount |-> Constructed(config_, serial_port, serial_port.port), stdout |-> out]

\* SerialMount.__init__(config, serial_port), writing to stdout out
SerialMount_init(config_, serial_port, os_, out) ==
  IF ~serial_port.given
  THEN init_validated(config_, serial_port, validate_config(config_, os_), out)
  ELSE [mount |-> Constructed(config_, serial_port, serial_port.port), stdout |-> out]

\* the connected property: self._port.is_open
connected(m) == m.port.is_open

\* the polar_aligned property
polar_aligned(m) == m.polar_aligned

\* the polar_aligned setter
set_polar_aligned(m, value) == [m EXCEPT !.polar_aligned = value]

\* connect() that closes a transport it finds open
connect_toggle(m) ==
  IF m.port.is_open
  THEN {[mount |-> [m EXCEPT !.port.is_open = FALSE], raised |-> ""]}
  ELSE {[mount |-> [m EXCEPT !.port = o.port], raised |-> o.raised] : o \in Serial_open(m.port)}

\* connect(): self._port.open(); each outcome is the mount after it and the
\* exception that left it, if any
connect(m) ==
  {[mount |-> [m EXCEPT !.port = o.port], raised |-> o.raised] : o \in Serial_open(m.port)}

\* the transports a caller hands to the constructor: one with a port named and
\* closed, the same one open, and one nobody configured
SuppliedPorts ==
  {[Serial EXCEPT !.port = PyStr(<<"C", "O", "M", "7">>), !.baudrate = PyInt(19200)],
   [Serial EXCEPT !.port = PyStr(<<"C", "O", "M", "7">>), !.baudrate = PyInt(19200),
                  !.is_open = TRUE],
   Serial}

SerialPortArgs == {NoPort} \cup {Given(p) : p \in SuppliedPorts}

InitMount ==
  /\ os \in Platforms
  /\ config \in MountConfigs(os)
  /\ call = NoCall
  /\ mount = NoMount
  /\ stdout = <<>>
  /\ last = NoLast
  /\ connects = 0

\* mount = TestSerialMount(config, serial_port)
Construct ==
  /\ mount.state = "none"
  /\ \E serial_port \in SerialPortArgs :
     \E r \in {SerialMount_init(config, serial_port, os, stdout)} :
       /\ mount' = r.mount
       /\ stdout' = r.stdout
       /\ last' = [op |-> "init",
                   raised |-> IF r.mount.state = "raised" THEN r.mount.exc ELSE "",
                   value |-> FALSE]
  /\ UNCHANGED <<os, config, call, connects>>

\* mount.connect()
Connect ==
  /\ mount.state = "constructed"
  /\ connects < MaxConnects
  /\ \E o \in connect(mount) :
       /\ mount' = o.mount
       /\ last' = [op |-> "connect", raised |-> o.raised, value |-> FALSE]
  /\ connects' = connects + 1
  /\ UNCHANGED <<os, config, call, stdout>>

\* mount.connected
GetConnected ==
  /\ mount.state = "constructed"
  /\ last' = [op |-> "connected", raised |-> "", value |-> connected(mount)]
  /\ UNCHANGED <<os, config, call, mount, stdout, connects>>

\* mount.polar_aligned
GetPolarAligned ==
  /\ mount.state = "constructed"
  /\ last' = [op |-> "polar_aligned", raised |-> "", value |-> polar_aligned(mount)]
  /\ UNCHANGED <<os, config, call, mount, stdout, connects>>

\* mount.polar_aligned = value
SetPolarAligned ==
  /\ mount.state = "constructed"
  /\ \E value \in BOOLEAN :
       /\ mount' = set_polar_aligned(mount, value)
       /\ last' = [op |-> "set_polar_aligned", raised |-> "", value |-> value]
  /\ UNCHANGED <<os, config, call, stdout, connects>>

NextMount == Construct \/ Connect \/ GetConnected \/ GetPolarAligned \/ SetPolarAligned

SpecMount == InitMount /\ [][NextMount]_vars

(***************************************************************************)
(* Properties of validate_config and apply_config_to_serial_port (Spec).   *)
(***************************************************************************)
Validated == call.op = "validate"
Returned == call.op = "validate" /\ call.result.raised = ""
Applied == call.op = "apply"

KnownPlatform == os \in {"Linux", "Darwin", "Windows"}

\* the messages of errs about key
ErrorsOf(errs, key) == SelectSeq(errs, LAMBDA m : m.key = key)

\* config differs from valid_config() in the field key at most
OnlyEdited(key) ==
  /\ config.has_serial
  /\ \A k \in (DOMAIN config.serial) \ {key} : config.serial[k] = valid_value(k, os)
  /\ \A i \in 1..Len(required_serial_config_keys) :
       required_serial_config_keys[i] # key => required_serial_config_keys[i] \in DOMAIN config.serial

\* C1: validate_config never raises: whatever fields the serial mapping has,
\* whatever the types of their values and whatever the platform, it returns a
\* (valid, errors) pair.
C1_ValidateNeverRaises ==
  (Validated /\ config.has_serial) => call.result.raised = ""

\* C2: the pair validate_config returns satisfies valid == (errors is empty).
C2_ValidIffNoErrors ==
  Returned => (call.result.valid <=> call.result.errors = <<>>)

\* C2 witness: a call that returned two messages and valid = false
C2_Witness ==
  Returned /\ ~call.result.valid /\ Len(call.result.errors) >= 2

\* the place of a field in the order the claim C3 gives
ClaimedRank(key) ==
  CASE key = "port" -> 1 [] key = "baud_rate" -> 2 [] key = "data_bits" -> 3
    [] key = "parity" -> 4 [] key = "stop_bits" -> 5

\* the place of a field in the order of the code
FieldRank(key) ==
  CASE key = "port" -> 1 [] key = "baud_rate" -> 2 [] key = "data_bits" -> 3
    [] key = "stop_bits" -> 4 [] key = "parity" -> 5

\* C3 as stated: the messages are ordered port, baud_rate, data_bits, parity,
\* stop_bits: of two messages the one of the earlier field comes first.
C3_ErrorsOrderedParityFirst ==
  Returned =>
    \A i, j \in 1..Len(call.result.errors) :
      i < j => ClaimedRank(call.result.errors[i].key) < ClaimedRank(call.result.errors[j].key)

\* C3 amended: the messages are ordered port, baud_rate, data_bits, stop_bits,
\* parity: of two messages the one of the earlier field comes first.
C3_ErrorsInFieldListOrder ==
  Returned =>
    \A i, j \in 1..Len(call.result.errors) :
      i < j => FieldRank(call.result.errors[i].key) < FieldRank(call.result.errors[j].key)

\* C3 witness: a call that reported both stop_bits and parity
C3_Witness ==
  /\ Returned
  /\ ErrorsOf(call.result.errors, "stop_bits") # <<>>
  /\ ErrorsOf(call.result.errors, "parity") # <<>>

\* the accepted values, as the specification lists them
AcceptedParityTokens ==
  {<<"e">>, <<"E">>, <<"e", "v", "e", "n">>, <<"E", "v", "e", "n">>,
   <<"n">>, <<"N">>, <<"n", "o", "n", "e">>, <<"N", "o", "n", "e">>,
   <<"o">>, <<"O">>, <<"o", "d", "d">>, <<"O", "d", "d">>}

\* a string that begins with /dev/ and one alphanumeric-or-hyphen character
UnixPrefixForm(s) ==
  Len(s) >= 6 /\ SubSeq(s, 1, 5) = DevPrefix /\ s[6] \in UnixPortClass

\* a string that is /dev/ and one or more alphanumeric-or-hyphen characters
UnixFullForm(s) ==
  UnixPrefixForm(s) /\ \A i \in 6..Len(s) : s[i] \in UnixPortClass

\* a string that begins with COM and a digit 1-9
WinPrefixForm(s) ==
  Len(s) >= 4 /\ SubSeq(s, 1, 3) = ComPrefix /\ s[4] \in Digits19

\* a string that is COM and a digit 1-9
WinFullForm(s) == WinPrefixForm(s) /\ Len(s) = 4

PortPrefixForm(s) == IF os = "Windows" THEN WinPrefixForm(s) ELSE UnixPrefixForm(s)
PortFullForm(s) == IF os = "Windows" THEN WinFullForm(s) ELSE UnixFullForm(s)

\* the one message a rejected port value produces on this platform
PortMessage(value) ==
  Msg(IF os = "Windows" THEN "port_win" ELSE "port_unix", "port", py_str(value))

\* a number (not a boolean) equal to 1, 1.5 or 2
StopBitsNumber(value) ==
  value.t \in {"int", "float"} /\ NumVal(value) \in {10, 15, 20}

\* the field is missing or its value breaks the rule of its field
BadField(key) ==
  \/ key \notin DOMAIN config.serial
  \/ /\ key \in DOMAIN config.serial
     /\ CASE key = "port" ->
               KnownPlatform /\ ~(config.serial[key].t = "str" /\ PortPrefixForm(config.serial[key].v))
          [] key = "baud_rate" ->
               ~(config.serial[key].t = "int" /\ config.serial[key].v \in 9600..230400)
          [] key = "data_bits" ->
               ~(config.serial[key].t = "int" /\ config.serial[key].v \in 5..8)
          [] key = "parity" ->
               ~(config.serial[key].t = "str" /\ config.serial[key].v \in AcceptedParityTokens)
          [] key = "stop_bits" -> ~StopBitsNumber(config.serial[key])

\* C4: validation is exhaustive, one message per bad field: it returns exactly
\* one message for each field that is missing or ill-formed and none for any
\* other field, whatever the other fields are.
C4_OneMessagePerBadField ==
  (Validated /\ config.has_serial) =>
    /\ call.result.raised = ""
    /\ \A i \in 1..Len(required_serial_config_keys) :
         Len(ErrorsOf(call.result.errors, required_serial_config_keys[i]))
           = IF BadField(required_serial_config_keys[i]) THEN 1 ELSE 0

\* C7 as stated, for port values that are strings: on Linux, Darwin and Windows
\* the port is accepted exactly when the whole value has the platform's form,
\* and every other value produces the platform's message naming the value.
C7_PortAcceptedIffFullForm ==
  (Returned /\ KnownPlatform /\ "port" \in DOMAIN config.serial
     /\ config.serial["port"].t = "str") =>
    ErrorsOf(call.result.errors, "port")
      = IF PortFullForm(config.serial["port"].v) THEN <<>>
        ELSE <<PortMessage(config.serial["port"])>>

\* C7 amended: on Linux, Darwin and Windows a port value that is a string is
\* accepted exactly when it begins with the platform's form (/dev/ and one
\* alphanumeric-or-hyphen character, COM and a digit 1-9), whatever follows; every
\* other string produces exactly one message, the platform's, naming the value
\* (the only message, if the other fields are valid); a port value that is no
\* string makes validate_config raise TypeError.
C7_PortAcceptedIffPrefixForm ==
  (Validated /\ KnownPlatform /\ config.has_serial /\ "port" \in DOMAIN config.serial) =>
    IF config.serial["port"].t = "str"
    THEN /\ Returned =>
              ErrorsOf(call.result.errors, "port")
                = IF PortPrefixForm(config.serial["port"].v) THEN <<>>
                  ELSE <<PortMessage(config.serial["port"])>>
         /\ OnlyEdited("port") =>
              /\ Returned
              /\ call.result.errors = ErrorsOf(call.result.errors, "port")
              /\ call.result.valid <=> PortPrefixForm(config.serial["port"].v)
    ELSE call.result.raised = "TypeError"

\* C7 witness: a port that begins with the form and does not end with it is
\* accepted, and one that does not begin with it is rejected
C7_Witness ==
  /\ Returned /\ KnownPlatform /\ OnlyEdited("port")
  /\ "port" \in DOMAIN config.serial /\ config.serial["port"].t = "str"
  /\ PortPrefixForm(config.serial["port"].v)
  /\ ~PortFullForm(config.serial["port"].v)
  /\ config.serial["port"] # valid_port(os)
  /\ call.result.valid

\* C8: stop_bits is accepted exactly when its value is one of the numbers 1, 1.5,
\* 2; every other value (other numbers, strings, booleans) that lets the call
\* return yields valid = false and the one stop_bits message naming the value.
C8_StopBitsAcceptedIffNumberInSet ==
  (Returned /\ OnlyEdited("stop_bits") /\ "stop_bits" \in DOMAIN config.serial) =>
    IF StopBitsNumber(config.serial["stop_bits"])
    THEN call.result.valid /\ call.result.errors = <<>>
    ELSE /\ ~call.result.valid
         /\ call.result.errors
              = <<Msg("stop_bits", "stop_bits", py_str(config.serial["stop_bits"]))>>

\* the transport setting the specification's tables give for a value
ExpectedDataBits(value) ==
  CASE value.v = 5 -> FIVEBITS [] value.v = 6 -> SIXBITS
    [] value.v = 7 -> SEVENBITS [] value.v = 8 -> EIGHTBITS

ExpectedStopBits(value) ==
  CASE NumVal(value) = 10 -> STOPBITS_ONE
    [] NumVal(value) = 15 -> STOPBITS_ONE_POINT_FIVE
    [] NumVal(value) = 20 -> STOPBITS_TWO

ExpectedParity(value) ==
  CASE value.v[1] \in {"e", "E"} -> PARITY_EVEN
    [] value.v[1] \in {"n", "N"} -> PARITY_NONE
    [] value.v[1] \in {"o", "O"} -> PARITY_ODD

\* validate_config(config) returns valid = true
PassesValidation ==
  validate_config(config, os).raised = "" /\ validate_config(config, os).valid

\* C9: on every configuration that passes validation, apply completes with no
\* exception and leaves port and baud rate equal to the input, and data bits,
\* stop bits and parity equal to the table's setting for the input; it does not
\* open the transport.
C9_ApplyTotalOnValidated ==
  (Applied /\ PassesValidation) =>
    /\ call.result.raised = ""
    /\ call.result.port.port = config.serial["port"]
    /\ call.result.port.baudrate = config.serial["baud_rate"]
    /\ call.result.port.bytesize = ExpectedDataBits(config.serial["data_bits"])
    /\ call.result.port.stopbits = ExpectedStopBits(config.serial["stop_bits"])
    /\ call.result.port.parity = ExpectedParity(config.serial["parity"])
    /\ call.result.port.is_open = FALSE

\* C9 witness: a validated configuration with stop bits 1.5 and odd parity applied
C9_Witness ==
  /\ Applied /\ PassesValidation
  /\ config.serial["stop_bits"] = PyFloat(15)
  /\ call.result.port.stopbits = STOPBITS_ONE_POINT_FIVE
  /\ call.result.port.parity = PARITY_ODD

(***************************************************************************)
(* Properties of the mount (SpecMount).                                    *)
(***************************************************************************)
IsConstructed == mount.state = "constructed"

\* the five parameters of a transport
Params(port) == <<port.port, port.baudrate, port.bytesize, port.stopbits, port.parity>>

\* validate_config(config) returns valid = false
FailsValidation ==
  validate_config(config, os).raised = "" /\ ~validate_config(config, os).valid

\* C5: construction writes transport parameters only when no transport was
\* supplied and the configuration passed validation. With a transport supplied,
\* nothing is validated (nothing is printed, nothing raised, even for {}) and the
\* transport keeps its parameters; with none supplied and a configuration that
\* fails validation, every message is printed in order, the new transport keeps
\* the parameters it was created with, and the mount is constructed.
C5_NoPartialApplication ==
  mount.state # "none" =>
    /\ mount.serial_port.given =>
         /\ IsConstructed
         /\ Params(mount.port) = Params(mount.serial_port.port)
         /\ stdout = <<>>
    /\ (~mount.serial_port.given /\ FailsValidation) =>
         /\ IsConstructed
         /\ Params(mount.port) = Params(Serial)
         /\ stdout = validate_config(config, os).errors
    /\ (IsConstructed /\ Params(mount.port) # Params(mount.serial_port.port)) =>
         (~mount.serial_port.given /\ PassesValidation)

\* C5 witness: a mount constructed with no transport from a configuration with
\* two faults: both messages printed, no parameter written
C5_Witness ==
  /\ IsConstructed
  /\ ~mount.serial_port.given
  /\ Len(stdout) >= 2
  /\ Params(mount.port) = Params(Serial)

\* C6: a mount constructed with no transport is not connected until connect is
\* called; one constructed with an open transport is connected without connect;
\* connected reports the transport's state; polar_aligned starts false; connect
\* is the only operation that changes connected, and a connected mount stays
\* connected under every operation.
C6_ConnectionLifecycle ==
  /\ [](IsConstructed =>
          /\ (~mount.serial_port.given /\ connects = 0) => ~connected(mount)
          /\ (mount.serial_port.given /\ mount.serial_port.port.is_open) => connected(mount)
          /\ last.op = "connected" => last.value = connected(mount)
          /\ last.op = "polar_aligned" => last.value = polar_aligned(mount)
          /\ last.op = "init" => ~polar_aligned(mount))
  /\ [][IsConstructed =>
          /\ mount'.state = "constructed"
          /\ connected(mount) => connected(mount')
          /\ connected(mount') # connected(mount) => last'.op = "connect"
          /\ last'.op \in {"connected", "polar_aligned"} => mount' = mount
          /\ last'.op = "set_polar_aligned" =>
               (mount'.port = mount.port /\ polar_aligned(mount') = last'.value)]_vars

\* C6 witness: a mount constructed with no transport that connect has
\* connected, polar-aligned since, and connected still after a second connect
C6_Witness ==
  /\ IsConstructed
  /\ ~mount.serial_port.given
  /\ connects = 2
  /\ polar_aligned(mount)
  /\ connected(mount)

\* C10 as stated: a mount constructed with a configuration that fails validation
\* is constructed and is never connected.
C10_MisconfiguredNeverConnected ==
  (mount.state # "none" /\ FailsValidation) => (IsConstructed /\ ~connected(mount))

\* C10 amended: a mount constructed with no transport supplied from a
\* configuration that fails validation is constructed and never connected:
\* every connect raises the transport's open failure. (With a transport supplied
\* the configuration is not looked at; if validate_config raises, so does the
\* constructor and there is no mount.)
C10_UnconfiguredNeverConnected ==
  (mount.state # "none" /\ ~mount.serial_port.given) =>
    /\ FailsValidation =>
         /\ IsConstructed
         /\ ~connected(mount)
         /\ last.op = "connect" => last.raised = "SerialException"
    /\ validate_config(config, os).raised # "" =>
         (mount.state = "raised" /\ mount.exc = validate_config(config, os).raised)

\* C10 witness: connect called twice on such a mount, both calls failed
C10_Witness ==
  /\ IsConstructed
  /\ ~mount.serial_port.given
  /\ FailsValidation
  /\ connects = 2
  /\ last.op = "connect" /\ last.raised = "SerialException"
  /\ ~connected(mount)

====
